---------------------------- MODULE Spec2Model ----------------------------
(***************************************************************************)
(* Model of the SEC filing viewer backend (backend/app): the three         *)
(* process-wide per-filing caches (FilingCache, VectorStore, BM25Index)    *)
(* and the request handlers that mutate them (open_filing, the table       *)
(* export routes, get_exhibits and the chat route send_message).           *)
(*                                                                         *)
(* Handlers are asyncio coroutines on one event loop: the code between two *)
(* awaits of an outbound call runs without interleaving, so every action   *)
(* below is one such uninterrupted segment of a handler.                   *)
(***************************************************************************)
EXTENDS Integers, Sequences, FiniteSets, TLC

(***************************************************************************)
(* Bounds of the model.                                                    *)
(***************************************************************************)
\* capacity of each cache (max_filings; CACHE_MAX_FILINGS in the program)
MaxFilings == 2
\* number of distinct filing ids that requests may name
NumFilings == 3
\* number of chat requests that may be in flight at the same time
NumRequests == 2

\* most messages in the body of a chat request
MaxMessages == 2
\* most characters in the content of a chat message
MaxContent == 1

\* most exhibits fetched for one filing (EXHIBIT_MAX_COUNT, 10 in the program)
EXHIBIT_MAX_COUNT == 3
\* most exhibits in the exhibit list of a filing
MaxExhibits == 4

\* most tokens (citation markers and stretches of text) in an answer
MaxAnswer == 3
\* largest number in a citation marker of an answer
MaxCite == 4
\* most chunks retrieve returns (RETRIEVAL_TOP_K, 10 in the program)
MaxChunks == 3

\* most elements of a main filing document
MaxElements == 3
\* most elements of the exhibit documents appended to it
MaxExhibitElements == 2

\* most pieces in the network location of a URL
MaxNetloc == 2
\* most pieces in the doc parameter of a URL
MaxDoc == 3

\* most tokens in the token stream of a text
MaxStream == 12
\* largest max_tokens a caller of chunk_text asks for
MaxTokensArg == 8
\* hard limit of a chunk (CHUNK_HARD_MAX_TOKENS, 1500 in the program)
CHUNK_HARD_MAX_TOKENS == 7
\* nodes of a document given to chunk_filing
MaxNodes == 4
\* max_tokens and overlap of chunk_filing's call of chunk_text (1000 and 200
\* in the program)
CHUNK_MAX_TOKENS == 3
CHUNK_OVERLAP_TOKENS == 1
\* data rows of a table, cells of a row, largest colspan and rowspan
MaxRows == 2
MaxCells == 2
MaxSpan == 2
\* header cells, rows and columns of a grid given to collapse_empty_columns
MaxHeaders == 2
MaxGridRows == 2
MaxGridCols == 3
\* entries of filings.recent, largest limit of a company search
MaxRecent == 3
MaxLimit == 3
\* largest score of a chunk, largest top_k of a retrieve
MaxScore == 2
MaxTopK == 4

Filings == 1..NumFilings
Requests == 1..NumRequests
\* raw HTML bodies a fetch returns: 1 is a filing text (0, the empty body
\* and the absent entry, is what get_html hands to "if not html")
Htmls == {1}

VARIABLES
    filing_cache,   \* FilingCache._cache: OrderedDict id -> {html,...}
    vector_store,   \* VectorStore.store: OrderedDict id -> {chunks,...}
    bm25_index,     \* BM25Index.store: OrderedDict id -> {chunks,...}
    req,            \* the chat requests in flight: position and locals
    fcUse,          \* observer: ids of filing_cache by last store/get_html
    vsUse,          \* observer: ids of vector_store by last ingest/retrieve
    last,           \* observer: the cache operation of the last step
    call            \* observer: the input of the last step, where recorded

vars ==
    <<filing_cache, vector_store, bm25_index, req, fcUse, vsUse, last, call>>

(***************************************************************************)
(* collections.OrderedDict as a sequence of entries in insertion order.    *)
(***************************************************************************)
Keys(od) == {od[i].id : i \in DOMAIN od}

HasKey(od, k) == k \in Keys(od)

Get(od, k) == od[CHOOSE i \in DOMAIN od : od[i].id = k]

\* del od[k]
Del(od, k) == SelectSeq(od, LAMBDA e : e.id # k)

\* faulty variant of SetItem: an existing key keeps its old value
SetItemKeep(od, k, v) == IF HasKey(od, k) THEN od ELSE Append(od, v)

\* od[k] = v: an existing key keeps its position, a new key goes last
SetItem(od, k, v) ==
    IF HasKey(od, k)
    THEN [i \in DOMAIN od |-> IF od[i].id = k THEN v ELSE od[i]]
    ELSE Append(od, v)

\* od.move_to_end(k)
MoveToEnd(od, k) == Append(Del(od, k), Get(od, k))

\* next(iter(od))
First(od) == od[1].id

Max2(a, b) == IF a >= b THEN a ELSE b

(***************************************************************************)
(* Observer of recency: a sequence of ids, least recently used first.      *)
(***************************************************************************)
Forget(use, k) == SelectSeq(use, LAMBDA x : x # k)

Touch(use, k) == Append(Forget(use, k), k)

(***************************************************************************)
(* FilingCache                                                             *)
(***************************************************************************)
\* faulty variant of the capacity test: ">" for ">="
FilingCache_full_strict(c) == Len(c) > MaxFilings

\* the capacity test of store: len(self._cache) >= self.max_filings
FilingCache_full(c) == Len(c) >= MaxFilings

\* the id that store evicts, 0 when it evicts none
FilingCache_victim(c) == IF FilingCache_full(c) THEN First(c) ELSE 0

FilingCache_store(c, filing_id, html) ==
    LET c1 == IF FilingCache_full(c) THEN Del(c, First(c)) ELSE c
        c2 == SetItem(c1, filing_id, [id |-> filing_id, html |-> html])
    IN  MoveToEnd(c2, filing_id)

\* the largest number of entries the cache holds during store
FilingCache_store_peak(c, filing_id) ==
    LET c1 == IF FilingCache_full(c) THEN Del(c, First(c)) ELSE c
        c2 == SetItem(c1, filing_id, [id |-> filing_id, html |-> 0])
    IN  Max2(Len(c1), Len(c2))

\* faulty variant of get_html: no move_to_end on a hit
FilingCache_get_html_nomove(c, filing_id) ==
    [cache |-> c,
     html  |-> IF HasKey(c, filing_id) THEN Get(c, filing_id).html ELSE 0]

\* get_html: the cache after the call and the value returned; 0 stands for
\* both None and the empty string, which the callers do not tell apart
FilingCache_get_html(c, filing_id) ==
    [cache |-> IF HasKey(c, filing_id) THEN MoveToEnd(c, filing_id) ELSE c,
     html  |-> IF HasKey(c, filing_id) THEN Get(c, filing_id).html ELSE 0]

FilingCache_get_source_url(c, filing_id) == HasKey(c, filing_id)

FilingCache_evict(c, filing_id) ==
    IF HasKey(c, filing_id) THEN Del(c, filing_id) ELSE c

(***************************************************************************)
(* BM25Index                                                               *)
(***************************************************************************)
BM25Index_evict(s, filing_id) ==
    IF HasKey(s, filing_id) THEN Del(s, filing_id) ELSE s

\* faulty variant of ingest: nothing is indexed
BM25Index_ingest_skip(s, filing_id, chunks) == s

BM25Index_ingest(s, filing_id, chunks) ==
    LET s1 == IF Len(s) >= MaxFilings THEN Del(s, First(s)) ELSE s
        s2 == SetItem(s1, filing_id, [id |-> filing_id, chunks |-> chunks])
    IN  MoveToEnd(s2, filing_id)

BM25Index_ingest_peak(s, filing_id) ==
    LET s1 == IF Len(s) >= MaxFilings THEN Del(s, First(s)) ELSE s
        s2 == SetItem(s1, filing_id, [id |-> filing_id, chunks |-> 0])
    IN  Max2(Len(s1), Len(s2))

(***************************************************************************)
(* VectorStore                                                             *)
(***************************************************************************)
VectorStore_has_filing(s, filing_id) == HasKey(s, filing_id)

\* the id that ingest evicts, 0 when it evicts none
VectorStore_victim(s) == IF Len(s) >= MaxFilings THEN First(s) ELSE 0

\* faulty variant of ingest: filing_cache.evict(oldest) is left out
VectorStore_ingest_noevict(vs, fc, bm, filing_id, chunks) ==
    LET full == Len(vs) >= MaxFilings
        oldest == First(vs)
        s1  == IF full THEN Del(vs, oldest) ELSE vs
        bm1 == IF full THEN BM25Index_evict(bm, oldest) ELSE bm
        s2  == SetItem(s1, filing_id, [id |-> filing_id, chunks |-> chunks])
    IN  [vs |-> MoveToEnd(s2, filing_id),
         fc |-> fc,
         bm |-> BM25Index_ingest(bm1, filing_id, chunks)]

\* faulty variant of ingest: an existing entry is not overwritten
VectorStore_ingest_keep(vs, fc, bm, filing_id, chunks) ==
    LET full == Len(vs) >= MaxFilings
        oldest == First(vs)
        s1  == IF full THEN Del(vs, oldest) ELSE vs
        fc1 == IF full THEN FilingCache_evict(fc, oldest) ELSE fc
        bm1 == IF full THEN BM25Index_evict(bm, oldest) ELSE bm
        s2  == SetItemKeep(s1, filing_id,
                           [id |-> filing_id, chunks |-> chunks])
    IN  [vs |-> MoveToEnd(s2, filing_id),
         fc |-> fc1,
         bm |-> BM25Index_ingest(bm1, filing_id, chunks)]

\* ingest: the three caches after the call
VectorStore_ingest(vs, fc, bm, filing_id, chunks) ==
    LET full == Len(vs) >= MaxFilings
        oldest == First(vs)
        s1  == IF full THEN Del(vs, oldest) ELSE vs
        fc1 == IF full THEN FilingCache_evict(fc, oldest) ELSE fc
        bm1 == IF full THEN BM25Index_evict(bm, oldest) ELSE bm
        s2  == SetItem(s1, filing_id, [id |-> filing_id, chunks |-> chunks])
    IN  [vs |-> MoveToEnd(s2, filing_id),
         fc |-> fc1,
         bm |-> BM25Index_ingest(bm1, filing_id, chunks)]

\* the largest number of entries any of the three caches holds during ingest
VectorStore_ingest_peak(vs, fc, bm, filing_id) ==
    LET full == Len(vs) >= MaxFilings
        oldest == First(vs)
        s1  == IF full THEN Del(vs, oldest) ELSE vs
        bm1 == IF full THEN BM25Index_evict(bm, oldest) ELSE bm
        s2  == SetItem(s1, filing_id, [id |-> filing_id, chunks |-> 0])
    IN  Max2(Max2(Len(s1), Len(s2)),
             Max2(Len(fc), BM25Index_ingest_peak(bm1, filing_id)))

\* retrieve: the chunks of the filing's entry, 0 for the empty result; the
\* store itself is only read
VectorStore_retrieve(s, filing_id) ==
    IF HasKey(s, filing_id) THEN Get(s, filing_id).chunks ELSE 0

(***************************************************************************)
(* Observer record of the last step.                                       *)
(***************************************************************************)
\*   op      the cache operation of the step ("store", "get_html",
\*           "get_source_url", "ingest", "retrieve", "get_element_map" or
\*           "none")
\*   id      the filing id it was called with, 0 if none
\*   ev      the id it evicted because of capacity, 0 if none
\*   had     the id had an entry in the cache operated on before the call
\*   old     the id was the oldest (first) entry of that cache before
\*   saved   store only: the id that the step just before read with
\*           get_html while it was the oldest entry, 0 if none
\*   chunks  ingest only: the chunk list written, else 0
\*   over    ingest only: the entry replaced held other chunks
\*   stage   the stage of send_message the step ran in, "" for other routes
\*   status  HTTP status of the response a handler gave in this step, else 0
\*   soft    the response is a 200 with the fixed apology and no sources
Op(op, id, ev, had, old, saved, chunks, over, stage, status, soft) ==
    [op |-> op, id |-> id, ev |-> ev, had |-> had, old |-> old,
     saved |-> saved, chunks |-> chunks, over |-> over, stage |-> stage,
     status |-> status, soft |-> soft]

\* a step that called no cache operation
NoOp(stage, status, soft) ==
    Op("none", 0, 0, FALSE, FALSE, 0, 0, FALSE, stage, status, soft)

IsOldest(od, k) == Len(od) > 0 /\ First(od) = k

\* a chat request slot with no request in flight
Idle == [pc |-> "idle", filing |-> 0]

\* the input of a step: the function or handler fn and what it was given or
\* what its outbound call produced
Called(fn, arg) == [fn |-> fn, arg |-> arg]

\* a step whose input is not recorded
NoCall == Called("none", "")

Init ==
    /\ filing_cache = <<>>
    /\ vector_store = <<>>
    /\ bm25_index = <<>>
    /\ req = [r \in Requests |-> Idle]
    /\ fcUse = <<>>
    /\ vsUse = <<>>
    /\ last = NoOp("", 0, FALSE)
    /\ call = NoCall

(***************************************************************************)
(* routes/filings.py                                                       *)
(***************************************************************************)
\* open_filing whose fetch succeeded with body html: store, sanitize, 200
open_filing(f, html) ==
    LET ev == FilingCache_victim(filing_cache)
        gone == IF ev = 0 THEN fcUse ELSE Forget(fcUse, ev)
    IN  /\ filing_cache' = FilingCache_store(filing_cache, f, html)
        /\ fcUse' = Touch(gone, f)
        /\ last' = Op("store", f, ev, HasKey(filing_cache, f),
                      IsOldest(filing_cache, f),
                      IF last.op = "get_html" /\ last.had /\ last.old
                      THEN last.id ELSE 0,
                      0, FALSE, "", 200, FALSE)
        /\ UNCHANGED <<vector_store, bm25_index, req, vsUse>>

\* open_filing whose fetch succeeded and whose sanitize raised: the store is
\* done, the answer is 500
open_filing_sanitize_raised(f, html) ==
    LET ev == FilingCache_victim(filing_cache)
        gone == IF ev = 0 THEN fcUse ELSE Forget(fcUse, ev)
    IN  /\ filing_cache' = FilingCache_store(filing_cache, f, html)
        /\ fcUse' = Touch(gone, f)
        /\ last' = Op("store", f, ev, HasKey(filing_cache, f),
                      IsOldest(filing_cache, f), 0, 0, FALSE, "", 500, FALSE)
        /\ UNCHANGED <<vector_store, bm25_index, req, vsUse>>

\* what open_filing is given or what its fetch raises
OpenFilingFailures ==
    {"EmptyUrl", "InvalidFilingUrlError", "HTTPError", "Exception"}

\* faulty variant of the except clauses: the first one is missing
open_filing_status_unmapped(failure) ==
    IF failure = "EmptyUrl" THEN 400
    ELSE IF failure = "HTTPError" THEN 502
    ELSE 500

\* the status of the HTTPException of open_filing: "URL is required" and the
\* three except clauses in their order
open_filing_status(failure) ==
    IF failure = "EmptyUrl" THEN 400
    ELSE IF failure = "InvalidFilingUrlError" THEN 400
    ELSE IF failure = "HTTPError" THEN 502
    ELSE 500

\* open_filing whose fetch raised: InvalidFilingUrlError 400, httpx.HTTPError
\* 502, any other exception 500; store is not reached
open_filing_failed(status) ==
    /\ last' = NoOp("", status, FALSE)
    /\ UNCHANGED <<filing_cache, vector_store, bm25_index, req, fcUse, vsUse>>

\* download_table_csv / _xlsx / download_all_tables_*: get_html, then 404 or
\* the generated file (a negative table index is answered 400 before any
\* cache call and changes nothing)
download_table(f) ==
    LET got == FilingCache_get_html(filing_cache, f)
    IN  /\ filing_cache' = got.cache
        /\ fcUse' = IF HasKey(filing_cache, f) THEN Touch(fcUse, f) ELSE fcUse
        /\ last' = Op("get_html", f, 0, HasKey(filing_cache, f),
                      IsOldest(filing_cache, f), 0, 0, FALSE, "",
                      IF got.html = 0 THEN 404 ELSE 200, FALSE)
        /\ UNCHANGED <<vector_store, bm25_index, req, vsUse>>

\* get_exhibits: get_source_url, then 404 or the exhibit list
get_exhibits(f) ==
    /\ last' = Op("get_source_url", f, 0, HasKey(filing_cache, f),
                  IsOldest(filing_cache, f), 0, 0, FALSE, "",
                  IF FilingCache_get_source_url(filing_cache, f)
                  THEN 200 ELSE 404, FALSE)
    /\ UNCHANGED <<filing_cache, vector_store, bm25_index, req, fcUse, vsUse>>

(***************************************************************************)
(* routes/chat.py: send_message, one action per segment between awaits.    *)
(* A request that has been answered frees its slot at once; its status is  *)
(* in the observer record.                                                 *)
(***************************************************************************)
\* the content of a message: a string over a blank and a letter
ChatContents == UNION {[1..n -> {" ", "q"}] : n \in 0..MaxContent}

ChatMessages == [role : {"user", "assistant"}, content : ChatContents]

\* the messages before the last one: each a question or an answer
ChatHistories ==
    UNION {[1..n -> [role : {"user", "assistant"}, content : {<<"q">>}]] :
               n \in 0..(MaxMessages - 1)}

\* ChatRequest bodies; filingId 0 is the empty string
ChatRequests ==
    [messages : {<<>>} \cup
                {h \o <<m>> : h \in ChatHistories, m \in ChatMessages},
     filingId : {0} \cup Filings]

\* str.strip(): leading and trailing whitespace removed
RECURSIVE strip(_)
strip(content) ==
    IF content = <<>> THEN <<>>
    ELSE IF Head(content) = " " THEN strip(Tail(content))
    ELSE IF content[Len(content)] = " "
    THEN strip(SubSeq(content, 1, Len(content) - 1))
    ELSE content

\* faulty variant of the validation: the content is not trimmed
send_message_validate_untrimmed(request) ==
    IF request.messages = <<>> THEN 400
    ELSE IF request.filingId = 0 THEN 400
    ELSE IF request.messages[Len(request.messages)].role # "user" THEN 400
    ELSE IF request.messages[Len(request.messages)].content = <<>> THEN 400
    ELSE 0

\* the validation of send_message: the status of the HTTPException it
\* raises, 0 when the request passes
send_message_validate(request) ==
    IF request.messages = <<>> THEN 400
    ELSE IF request.filingId = 0 THEN 400
    ELSE IF request.messages[Len(request.messages)].role # "user" THEN 400
    ELSE IF strip(request.messages[Len(request.messages)].content) = <<>>
    THEN 400
    ELSE 0

\* validation, the has_filing test, get_html and get_source_url, up to the
\* await of the exhibit list (or, for an ingested filing, of the embedding
\* of the question)
send_message(r, f, valid) ==
    /\ req[r].pc = "idle"
    /\ LET got == FilingCache_get_html(filing_cache, f)
       IN  IF ~valid
           THEN /\ last' = NoOp("validate", 400, FALSE)
                /\ UNCHANGED <<filing_cache, fcUse, req>>
           ELSE IF VectorStore_has_filing(vector_store, f)
           THEN /\ req' = [req EXCEPT ![r] =
                         [pc |-> "qembed", filing |-> f]]
                /\ last' = NoOp("retrieve", 0, FALSE)
                /\ UNCHANGED <<filing_cache, fcUse>>
           ELSE /\ filing_cache' = got.cache
                /\ fcUse' = IF HasKey(filing_cache, f)
                            THEN Touch(fcUse, f) ELSE fcUse
                /\ req' = [req EXCEPT ![r] =
                         IF got.html = 0 THEN Idle
                         ELSE [pc |-> "ingest", filing |-> f]]
                /\ last' = Op("get_html", f, 0, HasKey(filing_cache, f),
                              IsOldest(filing_cache, f), 0, 0, FALSE, "ingest",
                              IF got.html = 0 THEN 404 ELSE 0, FALSE)
    /\ UNCHANGED <<vector_store, bm25_index, vsUse>>

\* faulty variant of the try block: ingest runs before embed_texts raises
send_message_commit_always(vs, fc, bm, filing_id, chunks, outcome) ==
    VectorStore_ingest(vs, fc, bm, filing_id, chunks)

\* the try block of the ingestion stage after chunking: embed_texts raises
\* (outcome "openai" or "error") before ingest is reached, or returns and
\* ingest runs
send_message_commit(vs, fc, bm, filing_id, chunks, outcome) ==
    IF outcome = "ok"
    THEN VectorStore_ingest(vs, fc, bm, filing_id, chunks)
    ELSE [vs |-> vs, fc |-> fc, bm |-> bm]

\* the rest of the ingestion stage.  _append_exhibit_content returned (with
\* exhibits appended or the main HTML alone), chunk_filing, and
\* embed_texts(chunk_texts) returned or raised; then ingest, up to the await
\* of the embedding of the question.  The awaits in between touch no cache,
\* so the segments they separate are one step here; outcome "error" is an
\* exception of chunk_filing or a non-OpenAI exception of embed_texts.
send_message_ingest(r, exhibits, outcome) ==
    /\ req[r].pc = "ingest"
    /\ LET f == req[r].filing
           chunks == IF exhibits THEN 2 ELSE 1
           new == send_message_commit(vector_store, filing_cache, bm25_index,
                                      f, chunks, outcome)
           ev == VectorStore_victim(vector_store)
       IN  /\ vector_store' = new.vs
           /\ filing_cache' = new.fc
           /\ bm25_index' = new.bm
           /\ IF outcome = "ok"
              THEN /\ req' = [req EXCEPT ![r] = [@ EXCEPT !.pc = "qembed"]]
                   /\ fcUse' = IF ev = 0 THEN fcUse ELSE Forget(fcUse, ev)
                   /\ vsUse' = Touch(IF ev = 0 THEN vsUse
                                     ELSE Forget(vsUse, ev), f)
                   /\ last' = Op("ingest", f, ev, HasKey(vector_store, f),
                                 IsOldest(vector_store, f), 0, chunks,
                                 /\ HasKey(vector_store, f)
                                 /\ Get(vector_store, f).chunks # chunks,
                                 "ingest", 0, FALSE)
              ELSE /\ req' = [req EXCEPT ![r] = Idle]
                   /\ last' = NoOp("ingest",
                                   IF outcome = "openai" THEN 503 ELSE 500,
                                   FALSE)
                   /\ UNCHANGED <<fcUse, vsUse>>

\* faulty variant of the empty-result branch: no return, the answer call
\* starts
send_message_no_chunks_goes_on(q) == [q EXCEPT !.pc = "llm"]

\* the return of the fixed answer when retrieve found no chunks
send_message_no_chunks(q) == Idle

\* the embedding of the question returned or raised; retrieve; up to the
\* await of answer_question
send_message_retrieve(r, outcome) ==
    /\ req[r].pc = "qembed"
    /\ LET f == req[r].filing
           top_chunks == VectorStore_retrieve(vector_store, f)
       IN  IF outcome = "ok"
           THEN /\ req' = [req EXCEPT ![r] =
                         IF top_chunks = 0
                         THEN send_message_no_chunks(@)
                         ELSE [@ EXCEPT !.pc = "llm"]]
                /\ vsUse' = IF HasKey(vector_store, f)
                            THEN Touch(vsUse, f) ELSE vsUse
                /\ last' = Op("retrieve", f, 0, HasKey(vector_store, f),
                              IsOldest(vector_store, f), 0, 0, FALSE, "retrieve",
                              IF top_chunks = 0 THEN 200 ELSE 0,
                              top_chunks = 0)
           ELSE /\ req' = [req EXCEPT ![r] = Idle]
                /\ last' = NoOp("retrieve", 500, FALSE)
                /\ UNCHANGED vsUse
    /\ UNCHANGED <<filing_cache, vector_store, bm25_index, fcUse>>

\* faulty variant of the handlers of the answer stage: a timeout is answered
\* like any other failure
answer_question_failed_hard(outcome) == NoOp("answer", 500, FALSE)

\* the handlers of the answer stage: TimeoutError is answered 200 with the
\* fixed message and no sources, any other exception 500
answer_question_failed(outcome) ==
    NoOp("answer", IF outcome = "timeout" THEN 200 ELSE 500,
         outcome = "timeout")

\* answer_question returned, timed out or raised; citation post-processing
\* and source enrichment (which reads get_element_map); the response
send_message_answer(r, outcome) ==
    /\ req[r].pc = "llm"
    /\ req' = [req EXCEPT ![r] = Idle]
    /\ last' = IF outcome = "ok"
               THEN Op("get_element_map", req[r].filing, 0,
                       HasKey(vector_store, req[r].filing), FALSE, 0, 0,
                       FALSE, "cite", 200, FALSE)
               ELSE answer_question_failed(outcome)
    /\ UNCHANGED <<filing_cache, vector_store, bm25_index, fcUse, vsUse>>

\* the handlers under every interleaving of NumRequests chat requests; the
\* outcome of the outbound call is recorded for the retrieval and the answer
\* stage
Next ==
    \/ \E f \in Filings, html \in Htmls :
           open_filing(f, html) /\ call' = NoCall
    \/ \E status \in {400, 502, 500} :
           open_filing_failed(status) /\ call' = NoCall
    \/ \E f \in Filings : download_table(f) /\ call' = NoCall
    \/ \E f \in Filings : get_exhibits(f) /\ call' = NoCall
    \/ \E r \in Requests, f \in Filings, valid \in BOOLEAN :
           send_message(r, f, valid) /\ call' = NoCall
    \/ \E r \in Requests, exhibits \in BOOLEAN,
          outcome \in {"ok", "openai", "error"} :
           send_message_ingest(r, exhibits, outcome) /\ call' = NoCall
    \/ \E r \in Requests, outcome \in {"ok", "error"} :
           /\ send_message_retrieve(r, outcome)
           /\ call' = Called("retrieve", outcome)
    \/ \E r \in Requests, outcome \in {"ok", "timeout", "error"} :
           /\ send_message_answer(r, outcome)
           /\ call' = Called("answer_question", outcome)

Spec == Init /\ [][Next]_vars

\* raw HTML bodies of a 200 response: the empty body too
Bodies == {0} \cup Htmls

\* the handlers with one chat request at a time and every input: the body
\* of the chat request and the failure of open_filing are recorded
NextRoutes ==
    \/ \E f \in Filings, html \in Bodies :
           open_filing(f, html) /\ call' = Called("fetch", "ok")
    \/ \E f \in Filings, html \in Bodies :
           open_filing_sanitize_raised(f, html) /\ call' = Called("fetch", "ok")
    \/ \E failure \in OpenFilingFailures :
           /\ open_filing_failed(open_filing_status(failure))
           /\ call' = Called("fetch", failure)
    \/ \E f \in Filings : download_table(f) /\ call' = NoCall
    \/ \E f \in Filings : get_exhibits(f) /\ call' = NoCall
    \/ \E request \in ChatRequests :
           /\ send_message(1, request.filingId,
                           send_message_validate(request) = 0)
           /\ call' = Called("send_message", request)
    \/ \E exhibits \in BOOLEAN, outcome \in {"ok", "openai", "error"} :
           send_message_ingest(1, exhibits, outcome) /\ call' = NoCall
    \/ \E outcome \in {"ok", "error"} :
           send_message_retrieve(1, outcome) /\ call' = NoCall
    \/ \E outcome \in {"ok", "timeout", "error"} :
           send_message_answer(1, outcome) /\ call' = NoCall

SpecRoutes == Init /\ [][NextRoutes]_vars

(***************************************************************************)
(* routes/chat.py: _append_exhibit_content, one step per await.  HTML is a *)
(* sequence of documents: 0 is the main filing, k > 0 the k-th exhibit of  *)
(* the exhibit list, -1 the "\n" that join puts between two exhibits.      *)
(***************************************************************************)
RECURSIVE Join(_)
Join(htmls) ==
    IF Len(htmls) <= 1 THEN htmls
    ELSE <<Head(htmls), -1>> \o Join(Tail(htmls))

\* result.exhibits[:EXHIBIT_MAX_COUNT]
Sliced(exhibits) ==
    SubSeq(exhibits, 1, IF Len(exhibits) < EXHIBIT_MAX_COUNT
                        THEN Len(exhibits) ELSE EXHIBIT_MAX_COUNT)

\* the locals of _append_exhibit_content once get_source_url has returned
ExhibitLocals(source_url) ==
    [pc |-> IF source_url THEN "list" ELSE "return",
     exhibits |-> <<>>, tried |-> <<>>, exhibit_htmls |-> <<>>, html |-> <<0>>]

\* the statements after the loop: the appended HTML, or the main HTML alone
exhibit_return(a) ==
    [a EXCEPT !.pc = "return",
              !.html = IF a.exhibit_htmls # <<>>
                       THEN <<0>> \o Join(a.exhibit_htmls) ELSE <<0>>]

\* faulty variant of the loop body: a timeout is not caught by the inner
\* handlers and reaches the outer handler, which returns the main HTML
exhibit_fetched_uncaught(a, outcome) ==
    LET b == [a EXCEPT !.tried = Append(@, outcome),
                       !.exhibit_htmls =
                           IF outcome = "ok"
                           THEN Append(@, a.exhibits[Len(a.tried) + 1])
                           ELSE @]
    IN  IF outcome = "timeout"
        THEN [b EXCEPT !.pc = "return", !.html = <<0>>]
        ELSE IF Len(b.tried) = Len(Sliced(b.exhibits))
        THEN exhibit_return(b)
        ELSE b

\* one pass of the loop body: the fetch of the next exhibit returned its
\* HTML, timed out or raised; after the last pass, the return
exhibit_fetched(a, outcome) ==
    LET b == [a EXCEPT !.tried = Append(@, outcome),
                       !.exhibit_htmls =
                           IF outcome = "ok"
                           THEN Append(@, a.exhibits[Len(a.tried) + 1])
                           ELSE @]
    IN  IF Len(b.tried) = Len(Sliced(b.exhibits))
        THEN exhibit_return(b)
        ELSE b

InitExhibits ==
    /\ filing_cache = <<>>
    /\ vector_store = <<>>
    /\ bm25_index = <<>>
    /\ req = [r \in Requests |-> Idle]
    /\ fcUse = <<>>
    /\ vsUse = <<>>
    /\ last = NoOp("", 0, FALSE)
    /\ call \in {Called("_append_exhibit_content", ExhibitLocals(u)) :
                     u \in BOOLEAN}

\* fetch_exhibits returned None, raised, or returned a list of n exhibits
fetch_exhibits(outcome, n) ==
    /\ call.fn = "_append_exhibit_content"
    /\ call.arg.pc = "list"
    /\ call' = Called(call.fn,
                 IF outcome = "ok" /\ n > 0
                 THEN [call.arg EXCEPT !.pc = "loop",
                                       !.exhibits = [k \in 1..n |-> k]]
                 ELSE exhibit_return(call.arg))
    /\ UNCHANGED <<filing_cache, vector_store, bm25_index, req, fcUse,
                   vsUse, last>>

\* wait_for(filing_fetcher.fetch(exhibit.url)) returned, timed out or raised
fetch_exhibit(outcome) ==
    /\ call.fn = "_append_exhibit_content"
    /\ call.arg.pc = "loop"
    /\ call' = Called(call.fn, exhibit_fetched(call.arg, outcome))
    /\ UNCHANGED <<filing_cache, vector_store, bm25_index, req, fcUse,
                   vsUse, last>>

\* _append_exhibit_content returned: send_message hands its result to
\* chunk_filing
chunk_appended ==
    /\ call.fn = "_append_exhibit_content"
    /\ call.arg.pc = "return"
    /\ call' = Called(call.fn, [call.arg EXCEPT !.pc = "chunk_filing"])
    /\ UNCHANGED <<filing_cache, vector_store, bm25_index, req, fcUse,
                   vsUse, last>>

NextExhibits ==
    \/ \E outcome \in {"ok", "none", "error"}, n \in 0..MaxExhibits :
           fetch_exhibits(outcome, n)
    \/ \E outcome \in {"ok", "timeout", "error"} : fetch_exhibit(outcome)
    \/ chunk_appended

SpecExhibits == InitExhibits /\ [][NextExhibits]_vars

(***************************************************************************)
(* routes/chat.py: extract_and_filter_citations.  An answer is a sequence  *)
(* of tokens: n >= 0 is the marker [n] (what the pattern \[(\d+)\] matches *)
(* and int() reads), -1 a stretch of text without a marker.                *)
(***************************************************************************)
Answers == UNION {[1..n -> {-1} \cup (0..MaxCite)] : n \in 0..MaxAnswer}

\* the lists retrieve hands to the answer stage: never empty; the chunk at
\* rank i has an id that is not its rank
TopChunks == {[i \in 1..k |-> 10 + k - i] : k \in 1..MaxChunks}

RECURSIVE sorted(_)
sorted(S) ==
    IF S = {} THEN <<>>
    ELSE LET m == CHOOSE x \in S : \A y \in S : x <= y
         IN  <<m>> \o sorted(S \ {m})

\* faulty variant of cited_indices: the numbers in descending order
cited_indices_unsorted(answer) ==
    LET S == {answer[i] : i \in DOMAIN answer} \ {-1}
        desc[T \in SUBSET S] ==
            IF T = {} THEN <<>>
            ELSE LET m == CHOOSE x \in T : \A y \in T : x >= y
                 IN  <<m>> \o desc[T \ {m}]
    IN  desc[S]

\* sorted(set(int(m) for m in re.findall(pattern, answer)))
cited_indices(answer) == sorted({answer[i] : i \in DOMAIN answer} \ {-1})

\* {old: new for new, old in enumerate(cited_indices, start=1)}
index_map(cited) ==
    [old \in {cited[j] : j \in DOMAIN cited} |->
        CHOOSE new \in DOMAIN cited : cited[new] = old]

\* the chunks of the cited numbers that have one, in the order of cited
RECURSIVE filtered(_, _)
filtered(cited, top_chunks) ==
    IF cited = <<>> THEN <<>>
    ELSE LET chunk_idx == Head(cited) - 1
         IN  (IF 0 <= chunk_idx /\ chunk_idx < Len(top_chunks)
              THEN <<top_chunks[chunk_idx + 1]>> ELSE <<>>)
             \o filtered(Tail(cited), top_chunks)

\* renumber, the replacement function of re.sub: index_map.get(old), and the
\* marker as it was when that is None or 0
renumber(map, old) ==
    IF old \in DOMAIN map /\ map[old] # 0 THEN map[old] ELSE old

extract_and_filter_citations(answer, top_chunks) ==
    LET cited == cited_indices(answer)
    IN  IF cited = <<>>
        THEN [answer |-> answer, chunks |-> <<>>]
        ELSE [answer |-> [i \in DOMAIN answer |->
                            IF answer[i] = -1 THEN -1
                            ELSE renumber(index_map(cited), answer[i])],
              chunks |-> filtered(cited, top_chunks)]

InitCitations ==
    /\ filing_cache = <<>>
    /\ vector_store = <<>>
    /\ bm25_index = <<>>
    /\ req = [r \in Requests |-> Idle]
    /\ fcUse = <<>>
    /\ vsUse = <<>>
    /\ last = NoOp("", 0, FALSE)
    /\ call \in {Called("answer_question",
                         [answer |-> a, top_chunks |-> t]) :
                     a \in Answers, t \in TopChunks}

\* send_message after answer_question returned: the citations are filtered
\* and renumbered, and the sources are built from cited_chunks in their order
cite ==
    /\ call.fn = "answer_question"
    /\ call' = Called("extract_and_filter_citations",
                 [answer |-> call.arg.answer,
                  top_chunks |-> call.arg.top_chunks,
                  filtered_answer |->
                      extract_and_filter_citations(
                          call.arg.answer, call.arg.top_chunks).answer,
                  sources |->
                      extract_and_filter_citations(
                          call.arg.answer, call.arg.top_chunks).chunks])
    /\ UNCHANGED <<filing_cache, vector_store, bm25_index, req, fcUse,
                   vsUse, last>>

NextCitations == cite

SpecCitations == InitCitations /\ [][NextCitations]_vars

(***************************************************************************)
(* utils/sanitize_html.py and services/rag/chunker.py: the element indices *)
(* of open_filing's response and of chat ingestion.  A document is the     *)
(* sequence of its elements in document order (the order of find_all);     *)
(* tag "h" is a non-empty heading or emphasis element, "p" a text block of *)
(* at least 20 characters, "x" any other element.  The elements of the     *)
(* main filing are numbered from 1, those of the exhibits from 101.        *)
(***************************************************************************)
Tags == {"h", "p", "x"}

MainDocuments ==
    UNION {[1..n -> Tags] : n \in 0..MaxElements}

ExhibitDocuments ==
    UNION {[1..n -> Tags] : n \in 0..MaxExhibitElements}

\* the parsed document: each element with its identity
Parsed(tags, base) == [i \in DOMAIN tags |-> [el |-> base + i, tag |-> tags[i]]]

\* the number of elements with the given tag among the first n of doc
CountTag(doc, tag, n) ==
    Cardinality({i \in 1..n : doc[i].tag = tag})

\* faulty variant of sanitize: one pass in document order
sanitize_one_pass(doc) ==
    [i \in DOMAIN doc |->
        [el |-> doc[i].el,
         tag |-> doc[i].tag,
         index |-> IF doc[i].tag \in {"h", "p"}
                   THEN CountTag(doc, "h", i - 1) + CountTag(doc, "p", i - 1)
                   ELSE -1]]

\* sanitize: data-element-index from one counter, first to the semantic
\* elements in document order, then to the text blocks in document order;
\* -1 is an element without the attribute
sanitize(doc) ==
    [i \in DOMAIN doc |->
        [el |-> doc[i].el,
         tag |-> doc[i].tag,
         index |-> IF doc[i].tag = "h" THEN CountTag(doc, "h", i - 1)
                   ELSE IF doc[i].tag = "p"
                   THEN CountTag(doc, "h", Len(doc))
                        + CountTag(doc, "p", i - 1)
                   ELSE -1]]

\* chunk_filing: element_text_map, the elements of sanitize(html) that
\* carry data-element-index
element_text_map(html) ==
    SelectSeq(sanitize(html), LAMBDA e : e.index >= 0)

InitIndex ==
    /\ filing_cache = <<>>
    /\ vector_store = <<>>
    /\ bm25_index = <<>>
    /\ req = [r \in Requests |-> Idle]
    /\ fcUse = <<>>
    /\ vsUse = <<>>
    /\ last = NoOp("", 0, FALSE)
    /\ call \in {Called("fetch",
                         [raw_html |-> Parsed(m, 0),
                          exhibit_htmls |-> Parsed(e, 100),
                          sanitized_html |-> <<>>,
                          element_text_map |-> <<>>]) :
                     m \in MainDocuments, e \in ExhibitDocuments}

\* open_filing after the fetch: the response carries sanitize(raw_html)
open_filing_response ==
    /\ call.fn = "fetch"
    /\ call' = Called("open_filing",
                 [call.arg EXCEPT !.sanitized_html = sanitize(call.arg.raw_html)])
    /\ UNCHANGED <<filing_cache, vector_store, bm25_index, req, fcUse,
                   vsUse, last>>

\* chat ingestion of the opened filing: chunk_filing on the cached raw HTML
\* with the exhibit HTML that _append_exhibit_content appended
send_message_chunk ==
    /\ call.fn = "open_filing"
    /\ call' = Called("chunk_filing",
                 [call.arg EXCEPT !.element_text_map =
                     element_text_map(call.arg.raw_html
                                      \o call.arg.exhibit_htmls)])
    /\ UNCHANGED <<filing_cache, vector_store, bm25_index, req, fcUse,
                   vsUse, last>>

NextIndex == open_filing_response \/ send_message_chunk

SpecIndex == InitIndex /\ [][NextIndex]_vars

(***************************************************************************)
(* services/filing_fetcher.py: FilingFetcher.fetch.  A string is the       *)
(* sequence of its pieces, so that "www.sec.gov" is <<"www.", "sec.gov">>  *)
(* and two strings are equal when their pieces are.  A URL is what         *)
(* urlparse makes of it: network location, path and the doc parameter of   *)
(* the query (empty when there is none or it is blank); the scheme is not  *)
(* looked at by the code.                                                  *)
(***************************************************************************)
ALLOWED_DOMAINS == {<<"sec.gov">>, <<"www.", "sec.gov">>}

Urls ==
    [netloc : UNION {[1..n -> {"www.", "sec.gov", "evil.com", "@", "."}] :
                        n \in 0..MaxNetloc},
     path : {<<"/", "ix">>, <<"/", "a">>},
     doc : UNION {[1..n -> {"/", "a", "@", ".", "evil.com"}] :
                     n \in 0..MaxDoc}]

\* the part of a string before its first "/"
RECURSIVE BeforeSlash(_)
BeforeSlash(str) ==
    IF str = <<>> \/ Head(str) = "/" THEN <<>>
    ELSE <<Head(str)>> \o BeforeSlash(Tail(str))

\* the part of a string from its first "/" on
RECURSIVE FromSlash(_)
FromSlash(str) ==
    IF str = <<>> \/ Head(str) = "/" THEN str
    ELSE FromSlash(Tail(str))

\* _resolve_ixbrl_url: for path "/ix" with a doc parameter, the URL that
\* urlparse reads in the string "https://www.sec.gov" + doc_path
resolve_ixbrl_url(url) ==
    IF url.path = <<"/", "ix">> /\ url.doc # <<>>
    THEN [netloc |-> <<"www.", "sec.gov">> \o BeforeSlash(url.doc),
          path |-> FromSlash(url.doc),
          doc |-> <<>>]
    ELSE url

\* _validate_sec_url: the exception raised, "" when none is
validate_sec_url(url) ==
    IF url.netloc = <<>> THEN "InvalidFilingUrlError"
    ELSE IF url.netloc \notin ALLOWED_DOMAINS THEN "InvalidFilingUrlError"
    ELSE ""

\* faulty variant of fetch: the URL is validated before it is resolved
FilingFetcher_fetch_validate_first(url) ==
    IF validate_sec_url(url) # ""
    THEN [raised |-> validate_sec_url(url), get |-> <<>>]
    ELSE [raised |-> "", get |-> <<resolve_ixbrl_url(url)>>]

\* fetch up to its network call: the exception raised and the URLs that
\* client.get was called with
FilingFetcher_fetch(url) ==
    LET resolved_url == resolve_ixbrl_url(url)
    IN  IF validate_sec_url(resolved_url) # ""
        THEN [raised |-> validate_sec_url(resolved_url), get |-> <<>>]
        ELSE [raised |-> "", get |-> <<resolved_url>>]

InitFetch ==
    /\ filing_cache = <<>>
    /\ vector_store = <<>>
    /\ bm25_index = <<>>
    /\ req = [r \in Requests |-> Idle]
    /\ fcUse = <<>>
    /\ vsUse = <<>>
    /\ last = NoOp("", 0, FALSE)
    /\ call \in {Called("url", [url |-> u, raised |-> "", get |-> <<>>]) :
                     u \in Urls}

fetch ==
    /\ call.fn = "url"
    /\ call' = Called("fetch",
                 [url |-> call.arg.url,
                  raised |-> FilingFetcher_fetch(call.arg.url).raised,
                  get |-> FilingFetcher_fetch(call.arg.url).get])
    /\ UNCHANGED <<filing_cache, vector_store, bm25_index, req, fcUse,
                   vsUse, last>>

NextFetch == fetch

SpecFetch == InitFetch /\ [][NextFetch]_vars

(***************************************************************************)
(* utils/sanitize_html.py: which elements sanitize indexes.  An element of *)
(* the input is its tag name and the length of its text as get_text reads  *)
(* it.                                                                     *)
(***************************************************************************)
\* least text length of an indexed text block
BlockTextMin == 20

semantic_tags == {"h2", "b"}

text_block_tags == {"p", "td"}

Elements ==
    [name : semantic_tags \cup text_block_tags \cup {"span"},
     text : {0, 1, BlockTextMin - 1, BlockTextMin}]

\* the pass that indexes the element: "h" the first (semantic tag, text not
\* empty), "p" the second (text block tag, at least 20 characters), "x" none
Indexed(element) ==
    IF element.name \in semantic_tags /\ element.text > 0 THEN "h"
    ELSE IF element.name \in text_block_tags
            /\ element.text >= BlockTextMin THEN "p"
    ELSE "x"

\* the caches and handlers at rest, for the specifications of one function
AtRest ==
    /\ filing_cache = <<>>
    /\ vector_store = <<>>
    /\ bm25_index = <<>>
    /\ req = [r \in Requests |-> Idle]
    /\ fcUse = <<>>
    /\ vsUse = <<>>
    /\ last = NoOp("", 0, FALSE)

handlerVars ==
    <<filing_cache, vector_store, bm25_index, req, fcUse, vsUse, last>>

(***************************************************************************)
(* services/rag/chunker.py: chunk_text, one step per pass of its loop.     *)
(* The token stream of the text is 1..n: token i is the one at offset      *)
(* i - 1, and a chunk is the sequence of the tokens it decodes.            *)
(***************************************************************************)
\* a slice bound as Python reads it: a negative one counts from the end,
\* and both are clipped to the stream
SliceBound(n, x) ==
    IF x < 0 THEN (IF n + x < 0 THEN 0 ELSE n + x)
    ELSE IF x > n THEN n ELSE x

\* tokens[start:end]
Slice(n, start, end) ==
    [i \in 1..(SliceBound(n, end) - SliceBound(n, start)) |->
        SliceBound(n, start) + i]

\* the locals of chunk_text at its first loop test
ChunkLocals(n, max_tokens, overlap) ==
    [n |-> n, max_tokens |-> max_tokens, overlap |-> overlap,
     start |-> 0, chunks |-> <<>>, pc |-> "while"]

\* faulty variant of the loop body: no hard limit
chunk_text_pass_unlimited(a) ==
    [a EXCEPT !.chunks = Append(@, Slice(a.n, a.start,
                                         a.start + a.max_tokens)),
              !.start = a.start + a.max_tokens - a.overlap]

\* faulty variant of the loop body: start advances by max_tokens
chunk_text_pass_no_overlap(a) ==
    LET chunk_tokens == Slice(a.n, a.start, a.start + a.max_tokens)
    IN  [a EXCEPT !.chunks =
                      Append(@, IF Len(chunk_tokens) > CHUNK_HARD_MAX_TOKENS
                                THEN SubSeq(chunk_tokens, 1,
                                            CHUNK_HARD_MAX_TOKENS)
                                ELSE chunk_tokens),
                  !.start = a.start + a.max_tokens]

\* one pass of the loop body: the slice, its truncation to the hard limit,
\* the advance of start
chunk_text_pass(a) ==
    LET chunk_tokens == Slice(a.n, a.start, a.start + a.max_tokens)
    IN  [a EXCEPT !.chunks =
                      Append(@, IF Len(chunk_tokens) > CHUNK_HARD_MAX_TOKENS
                                THEN SubSeq(chunk_tokens, 1,
                                            CHUNK_HARD_MAX_TOKENS)
                                ELSE chunk_tokens),
                  !.start = a.start + a.max_tokens - a.overlap]

InitChunks ==
    /\ AtRest
    /\ call \in {Called("chunk_text", ChunkLocals(n, m, o)) :
                     n \in 0..MaxStream, m \in 1..MaxTokensArg,
                     o \in 0..MaxTokensArg}

\* the loop test holds: one pass (a call whose start does not advance goes
\* on for ever; its passes are followed up to MaxStream chunks)
chunk_text_loop ==
    /\ call.fn = "chunk_text"
    /\ call.arg.pc = "while"
    /\ call.arg.start < call.arg.n
    /\ Len(call.arg.chunks) < MaxStream
    /\ call' = Called("chunk_text", chunk_text_pass(call.arg))
    /\ UNCHANGED handlerVars

\* the loop test fails: return chunks
chunk_text_return ==
    /\ call.fn = "chunk_text"
    /\ call.arg.pc = "while"
    /\ call.arg.start >= call.arg.n
    /\ call' = Called("chunk_text", [call.arg EXCEPT !.pc = "return"])
    /\ UNCHANGED handlerVars

NextChunks == chunk_text_loop \/ chunk_text_return

SpecChunks == InitChunks /\ [][NextChunks]_vars

\* chunk_text runs to its end within one turn of the event loop: a pass or
\* the return that can be taken is taken
SpecChunksFair == SpecChunks /\ WF_vars(NextChunks)

(***************************************************************************)
(* utils/sanitize_html.py: sanitize on a document of up to MaxElements     *)
(* elements.                                                               *)
(***************************************************************************)
InitSanitize ==
    /\ AtRest
    /\ call \in {Called("html", [raw |-> d, html |-> <<>>]) :
                     d \in UNION {[1..n -> Elements] : n \in 0..MaxElements}}

sanitize_html ==
    /\ call.fn = "html"
    /\ call' = Called("sanitize",
                 [call.arg EXCEPT !.html =
                     sanitize(Parsed([i \in DOMAIN call.arg.raw |->
                                         Indexed(call.arg.raw[i])], 0))])
    /\ UNCHANGED handlerVars

NextSanitize == sanitize_html

SpecSanitize == InitSanitize /\ [][NextSanitize]_vars

(***************************************************************************)
(* services/rag/chunker.py: chunk_filing on a document of up to MaxNodes   *)
(* sibling nodes.  A node is a paragraph, a script, a style block or a     *)
(* table; a table is told apart by what format_table_for_llm makes of it.  *)
(* The text is a sequence of tokens, one for each string of the document.  *)
(***************************************************************************)
\* a table without tr, with a header row only, with data rows, with a data
\* row whose colspan is not a number
TableRows == {"none", "header", "data", "colspan"}

Nodes ==
    [name : {"p", "script", "style"}, rows : {"-"}]
        \cup [name : {"table"}, rows : TableRows]

RawDocuments == UNION {[1..n -> Nodes] : n \in 0..MaxNodes}

\* format_table_for_llm: "" for a table without rows or without data rows,
\* an exception out of int(colspan), the formatted text otherwise
format_table_for_llm(table_elem) ==
    CASE table_elem.rows \in {"none", "header"} -> ""
      [] table_elem.rows = "colspan" -> "raised"
      [] OTHER -> "markdown"

\* enumerate(soup.find_all("table")): the number of the table at position k
TableIndex(soup, k) ==
    Cardinality({j \in 1..(k - 1) : soup[j].name = "table"})

\* extract_tables: the tables whose formatted text is not empty; a table
\* whose formatting raised is logged and left out
extract_tables(soup) ==
    {[markdown |-> format_table_for_llm(soup[k]),
      index |-> TableIndex(soup, k)] :
        k \in {j \in DOMAIN soup :
                  /\ soup[j].name = "table"
                  /\ format_table_for_llm(soup[j]) \notin {"", "raised"}}}

\* the elements sanitize removes from the tree
decompose(soup) ==
    SelectSeq(soup, LAMBDA tag : tag.name \notin {"script", "style"})

\* table_elem.replace_with(placeholder) for every table
replace_with(soup) ==
    [k \in DOMAIN soup |->
        IF soup[k].name = "table"
        THEN [name |-> "[TABLE_i_PLACEHOLDER]", i |-> TableIndex(soup, k)]
        ELSE [name |-> soup[k].name, i |-> k]]

\* soup.get_text: the strings of the document in order.  Whether the
\* strings of script and style elements are among them depends on the
\* release of the HTML library (script_strings).
get_text(soup, script_strings) ==
    SelectSeq(soup, LAMBDA s : \/ s.name \in {"p", "[TABLE_i_PLACEHOLDER]"}
                               \/ script_strings)

\* text.replace(placeholder, markdown, 1) for every idx of tables_by_index
reinserted(text, tables) ==
    [k \in DOMAIN text |->
        IF /\ text[k].name = "[TABLE_i_PLACEHOLDER]"
           /\ text[k].i \in {table_data.index : table_data \in tables}
        THEN [name |-> "markdown", i |-> text[k].i]
        ELSE text[k]]

RECURSIVE chunk_text_while(_)
chunk_text_while(a) ==
    IF a.start < a.n THEN chunk_text_while(chunk_text_pass(a)) ELSE a.chunks

\* chunk_text(text, max_tokens, overlap): the chunks as token sequences
chunk_text(text, max_tokens, overlap) ==
    LET chunks == chunk_text_while(ChunkLocals(Len(text), max_tokens, overlap))
    IN  [c \in DOMAIN chunks |->
            [i \in DOMAIN chunks[c] |-> text[chunks[c][i]]]]

\* chunk_filing: element indices from the sanitized HTML, text and tables
\* from the raw HTML
chunk_filing(html, script_strings) ==
    LET sanitized_soup == decompose(html)
        soup == html
        tables == extract_tables(soup)
        text == reinserted(get_text(replace_with(soup), script_strings),
                           tables)
    IN  [html |-> html, sanitized_soup |-> sanitized_soup, soup |-> soup,
         tables |-> tables, text |-> text,
         chunks |-> chunk_text(text, CHUNK_MAX_TOKENS, CHUNK_OVERLAP_TOKENS)]

InitFiling ==
    /\ AtRest
    /\ call \in {Called("html", html) : html \in RawDocuments}

chunk_filing_call ==
    /\ call.fn = "html"
    /\ \E script_strings \in BOOLEAN :
          call' = Called("chunk_filing", chunk_filing(call.arg, script_strings))
    /\ UNCHANGED handlerVars

NextFiling == chunk_filing_call

SpecFiling == InitFiling /\ [][NextFiling]_vars

(***************************************************************************)
(* handle_merged_cells of services/csv_generator.py (the export grid) and  *)
(* of services/rag/table_formatter.py (the Table Formatter's grid) on the  *)
(* data rows of a table: up to MaxRows rows of up to MaxCells cells with   *)
(* spans up to MaxSpan.  The two functions differ in what a position       *)
(* receives that a cell covers beside its first one.                       *)
(***************************************************************************)
CellTexts == {"", "a", "b"}

TableCells == [text : CellTexts, colspan : 1..MaxSpan, rowspan : 1..MaxSpan]

Trs == UNION {[1..n -> TableCells] : n \in 0..MaxCells}

DataRows == UNION {[1..n -> Trs] : n \in 0..MaxRows}

\* sum(int(cell.get('colspan', 1)) for cell in row.find_all(['td', 'th']))
RECURSIVE cols(_)
cols(row) == IF row = <<>> THEN 0 ELSE Head(row).colspan + cols(Tail(row))

max_cols(rows) ==
    LET sums == {cols(rows[i]) : i \in DOMAIN rows} \cup {0}
    IN  CHOOSE m \in sums : \A x \in sums : x <= m

\* what the grids are made of before a cell is written: None, or for the
\* record of spans no cell
None(grid_of) == IF grid_of = "spans" THEN <<0, 0, 0>> ELSE "None"

\* the value written at offset (r, c) of the span of cell k of row row_idx,
\* whose first position is at column col_idx: the text at the first position
\* and "" elsewhere (export), the text (formatter); the record of spans
\* keeps which cell wrote the position
Written(grid_of, rows, row_idx, col_idx, k, r, c) ==
    CASE grid_of = "spans" -> <<row_idx, col_idx, k>>
      [] grid_of = "export" ->
             IF r = 0 /\ c = 0 THEN rows[row_idx][k].text ELSE ""
      [] OTHER -> rows[row_idx][k].text

\* while col_idx < max_cols and grid[row_idx][col_idx] is not None
RECURSIVE skip_filled(_, _, _, _)
skip_filled(grid_of, grid, row_idx, col_idx) ==
    IF col_idx <= Len(grid[row_idx]) /\ grid[row_idx][col_idx] # None(grid_of)
    THEN skip_filled(grid_of, grid, row_idx, col_idx + 1)
    ELSE col_idx

\* the two for loops over range(min(rowspan, row_count - row_idx)) and
\* range(min(colspan, max_cols - col_idx))
fill_span(grid_of, grid, rows, row_idx, col_idx, k) ==
    [i \in DOMAIN grid |->
        [j \in DOMAIN grid[i] |->
            IF /\ i - row_idx \in 0..(rows[row_idx][k].rowspan - 1)
               /\ j - col_idx \in 0..(rows[row_idx][k].colspan - 1)
            THEN Written(grid_of, rows, row_idx, col_idx, k,
                         i - row_idx, j - col_idx)
            ELSE grid[i][j]]]

\* the cells k.. of one row, with col_idx as the cells before left it
RECURSIVE fill_row(_, _, _, _, _, _)
fill_row(grid_of, grid, rows, row_idx, col_idx, k) ==
    IF k > Len(rows[row_idx]) THEN grid
    ELSE LET at == skip_filled(grid_of, grid, row_idx, col_idx)
         IN  IF at > Len(grid[row_idx]) THEN grid
             ELSE fill_row(grid_of,
                           fill_span(grid_of, grid, rows, row_idx, at, k),
                           rows, row_idx,
                           at + rows[row_idx][k].colspan, k + 1)

\* the rows row_idx..
RECURSIVE fill_grid(_, _, _, _)
fill_grid(grid_of, grid, rows, row_idx) ==
    IF row_idx > Len(rows) THEN grid
    ELSE fill_grid(grid_of,
                   fill_row(grid_of, grid, rows, row_idx, 1, 1),
                   rows, row_idx + 1)

\* the grid when the loops are done, None still in it
filled(grid_of, rows) ==
    IF rows = <<>> \/ max_cols(rows) = 0 THEN <<>>
    ELSE fill_grid(grid_of,
                   [i \in DOMAIN rows |->
                       [j \in 1..max_cols(rows) |-> None(grid_of)]],
                   rows, 1)

\* the returned grid: None replaced by ""
returned(grid_of, rows) ==
    LET grid == filled(grid_of, rows)
    IN  [i \in DOMAIN grid |->
            [j \in DOMAIN grid[i] |->
                IF grid[i][j] = None(grid_of) THEN "" ELSE grid[i][j]]]

\* faulty variant of the export grid: the text at every covered position
csv_generator_handle_merged_cells_repeating(rows) ==
    returned("formatter", rows)

\* csv_generator.handle_merged_cells
csv_generator_handle_merged_cells(rows) == returned("export", rows)

\* table_formatter.handle_merged_cells
table_formatter_handle_merged_cells(rows) == returned("formatter", rows)

InitGrids ==
    /\ AtRest
    /\ call \in {Called("data_rows", [rows |-> rows]) : rows \in DataRows}

handle_merged_cells ==
    /\ call.fn = "data_rows"
    /\ call' = Called("handle_merged_cells",
                 [rows |-> call.arg.rows,
                  export |-> csv_generator_handle_merged_cells(call.arg.rows),
                  formatter |->
                      table_formatter_handle_merged_cells(call.arg.rows)])
    /\ UNCHANGED handlerVars

NextGrids == handle_merged_cells

SpecGrids == InitGrids /\ [][NextGrids]_vars

(***************************************************************************)
(* services/csv_generator.py: the end of extract_table_at_index, from the  *)
(* grid handle_merged_cells returned: the empty rows are removed and       *)
(* collapse_empty_columns is applied.  Cell texts are character sequences. *)
(***************************************************************************)
GridCells == {<<>>, <<" ">>, <<"x">>}

HeaderLists == UNION {[1..n -> GridCells] : n \in 0..MaxHeaders}

\* the grids of handle_merged_cells: every row has max_cols cells
Grids ==
    UNION {[1..n -> [1..w -> GridCells]] :
              n \in 0..MaxGridRows, w \in 1..MaxGridCols}

\* the columns of the header that have a non-empty cell
non_empty_cols(headers, rows) ==
    SelectSeq([col_idx \in DOMAIN headers |-> col_idx],
              LAMBDA col_idx :
                  \/ strip(headers[col_idx]) # <<>>
                  \/ \E r \in DOMAIN rows :
                        /\ col_idx <= Len(rows[r])
                        /\ strip(rows[r][col_idx]) # <<>>)

collapse_empty_columns(headers, rows) ==
    LET kept == non_empty_cols(headers, rows)
    IN  IF headers = <<>> \/ Len(kept) = Len(headers) \/ Len(kept) = 0
        THEN [headers |-> headers, rows |-> rows]
        ELSE [headers |-> [k \in DOMAIN kept |-> headers[kept[k]]],
              rows |-> [r \in DOMAIN rows |->
                           [k \in DOMAIN kept |->
                               IF kept[k] <= Len(rows[r])
                               THEN rows[r][kept[k]] ELSE <<>>]]]

InitTable ==
    /\ AtRest
    /\ call \in {Called("grid", [headers |-> headers, grid |-> grid]) :
                     headers \in HeaderLists, grid \in Grids}

\* grid = [row for row in grid if any(cell.strip() for cell in row)], then
\* collapse_empty_columns(headers, grid)
extract_table_at_index ==
    /\ call.fn = "grid"
    /\ LET grid == SelectSeq(call.arg.grid,
                       LAMBDA row : \E c \in DOMAIN row : strip(row[c]) # <<>>)
       IN  call' = Called("collapse_empty_columns",
                     [headers |-> call.arg.headers, rows |-> grid,
                      table |-> collapse_empty_columns(call.arg.headers, grid)])
    /\ UNCHANGED handlerVars

NextTable == extract_table_at_index

SpecTable == InitTable /\ [][NextTable]_vars

(***************************************************************************)
(* routes/company.py: extract_filings on the parallel arrays of            *)
(* filings.recent, up to MaxRecent entries, with the limit of the query    *)
(* string (0..MaxLimit).  A Filing is kept as its form and its accession   *)
(* number.                                                                 *)
(***************************************************************************)
ALLOWED_FORMS ==
    {"10-K", "10-K/A", "10-Q", "10-Q/A", "8-K", "8-K/A", "DEF 14A",
     "DEFA14A", "S-1", "S-1/A", "S-3", "S-3/A", "S-4", "S-4/A", "F-1",
     "F-1/A", "4", "13F-HR", "13F-HR/A", "SC 13G", "SC 13G/A", "SC 13D",
     "SC 13D/A", "6-K", "6-K/A", "20-F", "20-F/A"}

\* forms of a payload: two of the whitelist, one outside it
Forms == {"10-K", "4", "3"}

Submissions ==
    [accessionNumber : {[i \in 1..n |-> i] : n \in 0..MaxRecent},
     form : UNION {[1..n -> Forms] : n \in 0..MaxRecent}]

\* forms[i] if i < len(forms) else ""
FormAt(recent, i) == IF i <= Len(recent.form) THEN recent.form[i] ELSE ""

\* the loop from entry i on, with the filings collected so far
RECURSIVE extract_filings_for(_, _, _, _)
extract_filings_for(recent, limit, i, filings) ==
    IF i > Len(recent.accessionNumber) THEN filings
    ELSE IF FormAt(recent, i) \notin ALLOWED_FORMS
    THEN extract_filings_for(recent, limit, i + 1, filings)
    ELSE LET appended ==
                 Append(filings,
                        [form |-> FormAt(recent, i),
                         accessionNumber |-> recent.accessionNumber[i]])
         IN  IF Len(appended) >= limit THEN appended
             ELSE extract_filings_for(recent, limit, i + 1, appended)

extract_filings(recent, limit) == extract_filings_for(recent, limit, 1, <<>>)

InitCompany ==
    /\ AtRest
    /\ call \in {Called("submissions", [recent |-> recent, limit |-> limit]) :
                     recent \in Submissions, limit \in 0..MaxLimit}

search_by_cik ==
    /\ call.fn = "submissions"
    /\ call' = Called("extract_filings",
                 [recent |-> call.arg.recent, limit |-> call.arg.limit,
                  filings |-> extract_filings(call.arg.recent, call.arg.limit)])
    /\ UNCHANGED handlerVars

NextCompany == search_by_cik

SpecCompany == InitCompany /\ [][NextCompany]_vars

(***************************************************************************)
(* services/rag/vector_store.py: VectorStore.retrieve on the entry of an   *)
(* ingested filing with 0..MaxChunks chunks.  Scores are whole numbers of  *)
(* the unit epsilon; a combined score is kept multiplied by the common     *)
(* denominator 10 * range_score(semantic) * range_score(keyword).          *)
(***************************************************************************)
Scores == 0..MaxScore

epsilon == 1

\* the queries: the semantic score of every chunk (np.dot(vectors, query)),
\* the Keyword Index's entry of the filing (its BM25 score of every chunk)
\* or none, top_k, and whether a query_text is given
Queries ==
    UNION {[semantic_scores : [1..n -> Scores],
            bm25_index : [has : {TRUE}, scores : [1..n -> Scores]]
                             \cup {[has |-> FALSE, scores |-> <<>>]},
            top_k : 1..MaxTopK,
            query_text : {"None", "question"}] : n \in 0..MaxChunks}

\* BM25Index.score_all: [] when the filing is not indexed
BM25Index_score_all(entry) == IF entry.has THEN entry.scores ELSE <<>>

min(scores) ==
    CHOOSE m \in {scores[i] : i \in DOMAIN scores} :
        \A i \in DOMAIN scores : m <= scores[i]

max(scores) ==
    CHOOSE m \in {scores[i] : i \in DOMAIN scores} :
        \A i \in DOMAIN scores : m >= scores[i]

range_score(scores) == max(scores) - min(scores) + epsilon

\* semantic_weight * sem_norm + keyword_weight * kw_norm, times the common
\* denominator
combined_scores(semantic_scores, keyword_scores) ==
    [i \in DOMAIN semantic_scores |->
        6 * (semantic_scores[i] - min(semantic_scores))
              * range_score(keyword_scores)
        + 4 * (keyword_scores[i] - min(keyword_scores))
              * range_score(semantic_scores)]

\* np.argsort(scores): the orders of the indices in which the scores
\* ascend; the order of equal scores is not determined
argsort(scores) ==
    {order \in [DOMAIN scores -> DOMAIN scores] :
        /\ \A i, j \in DOMAIN scores : i # j => order[i] # order[j]
        /\ \A i, j \in DOMAIN scores :
              i < j => scores[order[i]] <= scores[order[j]]}

\* order[-top_k:][::-1]
top_indices(order, top_k) ==
    LET last_k == SubSeq(order, SliceBound(Len(order), 0 - top_k) + 1,
                         Len(order))
    IN  [i \in DOMAIN last_k |-> last_k[Len(last_k) + 1 - i]]

\* retrieve for one order argsort may give
VectorStore_retrieve_scored(q, order) ==
    LET keyword_scores == BM25Index_score_all(q.bm25_index)
    IN  IF q.query_text = "None" \/ keyword_scores = <<>>
        THEN LET top == top_indices(order, q.top_k)
             IN  [k \in DOMAIN top |->
                     [chunk |-> top[k], score |-> q.semantic_scores[top[k]]]]
        ELSE LET combined == combined_scores(q.semantic_scores, keyword_scores)
                 top == top_indices(order, q.top_k)
             IN  [k \in DOMAIN top |->
                     [chunk |-> top[k], score |-> combined[top[k]],
                      semantic_score |-> q.semantic_scores[top[k]],
                      keyword_score |-> keyword_scores[top[k]]]]

\* np.dot(vectors, query) raises for the vectors of a filing without chunks:
\* np.array([]) has the shape (0,), which the query vector does not have
dot_raises(q) == q.semantic_scores = <<>>

\* the scores retrieve sorts by
ranked_scores(q) ==
    IF q.query_text = "None" \/ BM25Index_score_all(q.bm25_index) = <<>>
    THEN q.semantic_scores
    ELSE combined_scores(q.semantic_scores,
                         BM25Index_score_all(q.bm25_index))

InitRetrieve ==
    /\ AtRest
    /\ call \in {Called("query",
                       [query |-> q, raised |-> FALSE, top_chunks |-> <<>>]) :
                     q \in Queries}

retrieve ==
    /\ call.fn = "query"
    /\ IF dot_raises(call.arg.query)
       THEN call' = Called("retrieve", [call.arg EXCEPT !.raised = TRUE])
       ELSE \E order \in argsort(ranked_scores(call.arg.query)) :
               call' = Called("retrieve",
                         [call.arg EXCEPT !.top_chunks =
                             VectorStore_retrieve_scored(call.arg.query,
                                                         order)])
    /\ UNCHANGED handlerVars

NextRetrieve == retrieve

SpecRetrieve == InitRetrieve /\ [][NextRetrieve]_vars

(***************************************************************************)
(* services/filing_cache.py: the methods of FilingCache called in any      *)
(* order on one cache, with ids of Filings and bodies of CacheHtmls.       *)
(***************************************************************************)
CacheHtmls == {1, 2}

\* faulty variant of get_source_url: move_to_end on a hit, as get_html does
FilingCache_get_source_url_moving(c, filing_id) ==
    [cache |-> IF HasKey(c, filing_id) THEN MoveToEnd(c, filing_id) ELSE c,
     hit |-> HasKey(c, filing_id)]

\* get_source_url: the cache after the call and whether an entry was found
FilingCache_get_source_url_read(c, filing_id) ==
    [cache |-> c, hit |-> FilingCache_get_source_url(c, filing_id)]

\* has_filing: the cache after the call and the value returned
FilingCache_has_filing(c, filing_id) ==
    [cache |-> c, hit |-> HasKey(c, filing_id)]

InitCache == AtRest /\ call = NoCall

\* the variables no method of FilingCache touches
othersVars == <<vector_store, bm25_index, req, fcUse, vsUse, last>>

store(filing_id, html) ==
    /\ filing_cache' = FilingCache_store(filing_cache, filing_id, html)
    /\ call' = Called("store", [filing_id |-> filing_id,
                                hit |-> HasKey(filing_cache, filing_id)])
    /\ UNCHANGED othersVars

get_html(filing_id) ==
    /\ filing_cache' = FilingCache_get_html(filing_cache, filing_id).cache
    /\ call' = Called("get_html", [filing_id |-> filing_id,
                                   hit |-> HasKey(filing_cache, filing_id)])
    /\ UNCHANGED othersVars

get_source_url(filing_id) ==
    LET got == FilingCache_get_source_url_read(filing_cache, filing_id)
    IN  /\ filing_cache' = got.cache
        /\ call' = Called("get_source_url",
                          [filing_id |-> filing_id, hit |-> got.hit])
        /\ UNCHANGED othersVars

has_filing(filing_id) ==
    LET got == FilingCache_has_filing(filing_cache, filing_id)
    IN  /\ filing_cache' = got.cache
        /\ call' = Called("has_filing",
                          [filing_id |-> filing_id, hit |-> got.hit])
        /\ UNCHANGED othersVars

evict(filing_id) ==
    /\ filing_cache' = FilingCache_evict(filing_cache, filing_id)
    /\ call' = Called("evict", [filing_id |-> filing_id,
                                hit |-> HasKey(filing_cache, filing_id)])
    /\ UNCHANGED othersVars

NextCache ==
    \/ \E filing_id \in Filings, html \in CacheHtmls : store(filing_id, html)
    \/ \E filing_id \in Filings : get_html(filing_id)
    \/ \E filing_id \in Filings : get_source_url(filing_id)
    \/ \E filing_id \in Filings : has_filing(filing_id)
    \/ \E filing_id \in Filings : evict(filing_id)

SpecCache == InitCache /\ [][NextCache]_vars

(***************************************************************************)
(* Properties.                                                             *)
(***************************************************************************)
Count(od, k) == Cardinality({i \in DOMAIN od : od[i].id = k})

\* C1: in every reachable state every filing id that has a Vector Store or
\* Keyword Index entry also has a Filing Cache entry (FilingCache.store's
\* eviction leaves no Vector Store / Keyword Index entry for the evicted id).
C1_IndexedImpliesCached ==
    (Keys(vector_store) \cup Keys(bm25_index)) \subseteq Keys(filing_cache)

\* C2: when VectorStore.ingest at capacity evicted its oldest id X, and X is
\* not the id ingested, X is absent from the Vector Store, the Filing Cache
\* and the Keyword Index after the call.
C2_EvictedEverywhere ==
    (last.op = "ingest" /\ last.ev # 0 /\ last.ev # last.id) =>
        /\ ~HasKey(vector_store, last.ev)
        /\ ~HasKey(filing_cache, last.ev)
        /\ ~HasKey(bm25_index, last.ev)

C2_Witness ==
    /\ last.op = "ingest"
    /\ last.ev # 0
    /\ last.ev # last.id
    /\ Len(vector_store) = MaxFilings

\* C3: the Keyword Index and the Vector Store hold the same filing ids, and
\* for each id the same chunk list; this holds after every completed
\* VectorStore.ingest and, nothing else writing either, in every state.
C3_Lockstep ==
    /\ Keys(bm25_index) = Keys(vector_store)
    /\ \A f \in Keys(vector_store) :
           Get(bm25_index, f).chunks = Get(vector_store, f).chunks

C3_Witness ==
    /\ last.op = "ingest"
    /\ last.had
    /\ last.ev # 0
    /\ last.over
    /\ Keys(vector_store) = {last.id}

\* C4: each of the three caches holds at most MaxFilings entries after every
\* step, and no store or ingest call holds more than that between its
\* eviction and its insertion.
C4_Bounded ==
    [][ /\ Len(filing_cache') <= MaxFilings
        /\ Len(vector_store') <= MaxFilings
        /\ Len(bm25_index') <= MaxFilings
        /\ last'.op = "store" =>
               FilingCache_store_peak(filing_cache, last'.id) <= MaxFilings
        /\ last'.op = "ingest" =>
               VectorStore_ingest_peak(vector_store, filing_cache,
                                       bm25_index, last'.id) <= MaxFilings
      ]_vars

C4_Witness ==
    /\ last.op = "store"
    /\ last.ev # 0
    /\ Len(filing_cache) = MaxFilings
    /\ Len(vector_store) = MaxFilings
    /\ Len(bm25_index) = MaxFilings

\* C5: Filing Cache eviction is least-recently-used, store and get_html both
\* counting as use: a store of a new id into a full cache evicts the id
\* whose last store/get_html is the oldest and leaves exactly MaxFilings
\* entries; when the step just before was a get_html of the oldest id, that
\* id survives the store and another id is evicted.
C5_FilingCacheLRU ==
    [][ (/\ last'.op = "store"
         /\ Len(filing_cache) >= MaxFilings
         /\ ~HasKey(filing_cache, last'.id)) =>
            /\ last'.ev = Head(fcUse)
            /\ ~HasKey(filing_cache', last'.ev)
            /\ Len(filing_cache') = MaxFilings
            /\ (last.op = "get_html" /\ last.had /\ last.old) =>
                   /\ HasKey(filing_cache', last.id)
                   /\ last'.ev # last.id
      ]_vars

C5_Witness ==
    /\ last.op = "store"
    /\ ~last.had
    /\ last.ev # 0
    /\ last.saved # 0
    /\ HasKey(filing_cache, last.saved)
    /\ Len(filing_cache) = MaxFilings

\* C6: when ingest runs at capacity, the filing it evicts is the least
\* recently used one of the Vector Store, ingest and retrieve both counting
\* as use (a filing retrieved from more recently than another is not evicted
\* before that other).
C6_VectorStoreLRU ==
    [][ (last'.op = "ingest" /\ last'.ev # 0) => last'.ev = Head(vsUse) ]_vars

\* C7: a chat request whose ingestion stage fails (503 or 500) leaves the
\* Vector Store and the Keyword Index as they were and evicts nothing: none
\* of its steps, from the has_filing test to the failure, writes an entry or
\* removes an id from a cache.
C7_NoPartialCommit ==
    [][ \A r \in Requests :
          (\/ req[r].pc = "idle" /\ req'[r].pc = "ingest"
           \/ req[r].pc = "ingest" /\ req'[r].pc = "idle") =>
              /\ vector_store' = vector_store
              /\ bm25_index' = bm25_index
              /\ Keys(filing_cache') = Keys(filing_cache)
      ]_vars

C7_Witness ==
    /\ last.stage = "ingest"
    /\ last.status \in {500, 503}
    /\ Len(vector_store) = MaxFilings

\* C8: the stages of one chat request are strictly sequential: ingestion is
\* entered only for a filing without Vector Store entry and has completed
\* (the entry is there) when retrieval starts; retrieval has completed, with
\* chunks, when the answer call starts; citation post-processing follows the
\* answer call only; and a request that was answered, with an error or a
\* soft response, starts no further stage.
C8_StagesSequential ==
    [][ /\ \A r \in Requests :
              \/ req'[r] = req[r]
              \/ /\ req[r].pc = "idle" /\ req'[r].pc = "ingest"
                 /\ ~HasKey(vector_store, req'[r].filing)
                 /\ last'.status = 0
              \/ /\ req[r].pc = "idle" /\ req'[r].pc = "qembed"
                 /\ HasKey(vector_store, req'[r].filing)
                 /\ last'.status = 0
              \/ /\ req[r].pc = "ingest" /\ req'[r].pc = "qembed"
                 /\ req'[r].filing = req[r].filing
                 /\ last'.op = "ingest" /\ last'.status = 0
                 /\ HasKey(vector_store', req[r].filing)
              \/ /\ req[r].pc = "qembed" /\ req'[r].pc = "llm"
                 /\ req'[r].filing = req[r].filing
                 /\ last'.op = "retrieve" /\ last'.status = 0
                 /\ last'.had
              \/ /\ req[r].pc # "idle" /\ req'[r] = Idle
                 /\ last'.status # 0
        /\ (last'.stage # "" /\ last'.status # 0) =>
               \A r \in Requests : req'[r] # req[r] => req'[r] = Idle
        /\ last'.stage = "cite" =>
               \E r \in Requests : req[r].pc = "llm" /\ req'[r] = Idle
      ]_vars

C8_Witness ==
    /\ last.stage = "cite"
    /\ last.status = 200
    /\ last.op = "get_element_map"
    /\ HasKey(vector_store, last.id)

\* C9: when a chat request ingests a filing id (also one that a concurrent
\* request, having likewise seen it not ingested, has ingested meanwhile),
\* there is afterwards exactly one Vector Store entry and one Keyword Index
\* entry for the id, and both hold the chunks of this last ingestion.
C9_LastWriteWins ==
    last.op = "ingest" =>
        /\ Count(vector_store, last.id) = 1
        /\ Count(bm25_index, last.id) = 1
        /\ Get(vector_store, last.id).chunks = last.chunks
        /\ Get(bm25_index, last.id).chunks = last.chunks

C9_Witness ==
    /\ last.op = "ingest"
    /\ last.had
    /\ last.over
    /\ \A r \in Requests : req[r].pc = "qembed" /\ req[r].filing = last.id

\* C10: re-ingesting a filing id that has a Vector Store entry replaces that
\* entry only: the number of entries is unchanged and no other id leaves the
\* Vector Store, the Keyword Index or the Filing Cache.
C10_ReingestReplaces ==
    [][ (last'.op = "ingest" /\ last'.had) =>
            /\ Len(vector_store') = Len(vector_store)
            /\ Keys(vector_store') = Keys(vector_store)
            /\ Keys(bm25_index) \subseteq Keys(bm25_index')
            /\ Keys(filing_cache) \subseteq Keys(filing_cache')
      ]_vars

\* a message content that is empty once trimmed: nothing but blanks
Blank(content) == \A i \in DOMAIN content : content[i] = " "

\* the requests the validation of send_message must reject
Rejected(request) ==
    \/ request.messages = <<>>
    \/ request.filingId = 0
    \/ request.messages[Len(request.messages)].role # "user"
    \/ Blank(request.messages[Len(request.messages)].content)

\* C11: a chat request whose messages are empty, whose filingId is empty,
\* whose last message is not from the user or whose last content is blank
\* after trimming is answered 400, and that step reads and writes no cache:
\* the three caches, their recency orders and the requests in flight are
\* as before.
C11_RejectedBeforeAnyRead ==
    [][ (call'.fn = "send_message" /\ Rejected(call'.arg))
        => /\ last'.status = 400
           /\ last'.op = "none"
           /\ UNCHANGED <<filing_cache, vector_store, bm25_index,
                          fcUse, vsUse, req>>
      ]_vars

C11_Witness ==
    /\ call.fn = "send_message"
    /\ Len(call.arg.messages) = MaxMessages
    /\ call.arg.messages[1].role = "user"
    /\ call.arg.messages[MaxMessages] = [role |-> "user", content |-> <<" ">>]
    /\ HasKey(filing_cache, call.arg.filingId)
    /\ HasKey(vector_store, call.arg.filingId)
    /\ last.status = 400

\* C12: a valid chat request for an id with no Vector Store entry is answered
\* 404 exactly when the Filing Cache holds no entry for that id; when it
\* holds one the request goes on to ingestion.
C12_NotFoundIffAbsent ==
    [][ ( /\ call'.fn = "send_message"
          /\ ~Rejected(call'.arg)
          /\ ~HasKey(vector_store, call'.arg.filingId) )
        => IF HasKey(filing_cache, call'.arg.filingId)
           THEN last'.status # 404 /\ req'[1].pc = "ingest"
           ELSE last'.status = 404
      ]_vars

\* the exhibits whose fetch returned, in the order of the exhibit list
Fetched(a) ==
    LET ok == {i \in DOMAIN a.tried : a.tried[i] = "ok"}
        F[i \in 0..Len(a.tried)] ==
            IF i = 0 THEN <<>>
            ELSE IF i \in ok THEN Append(F[i - 1], a.exhibits[i])
            ELSE F[i - 1]
    IN  F[Len(a.tried)]

\* the documents of an HTML string, separators left out
Documents(html) == SelectSeq(html, LAMBDA d : d # -1)

\* C13: whatever the exhibit-list fetch and each exhibit fetch did (returned,
\* raised, timed out), _append_exhibit_content returns and its result is
\* chunked: that result is the main HTML followed by exactly the exhibits
\* whose fetch returned, in exhibit-list order, and at most EXHIBIT_MAX_COUNT
\* exhibit fetches were attempted, all of them on the first exhibits of the
\* list.
C13_ExhibitsNeverAbort ==
    call.fn = "_append_exhibit_content"
    => LET a == call.arg
       IN  /\ a.pc \in {"list", "loop", "return", "chunk_filing"}
           /\ Len(a.tried) <= EXHIBIT_MAX_COUNT
           /\ Len(a.tried) <= Len(a.exhibits)
           /\ a.pc \in {"return", "chunk_filing"}
              => /\ Documents(a.html) = <<0>> \o Fetched(a)
                 /\ Head(a.html) = 0
                 /\ a.exhibits # <<>>
                    => Len(a.tried) = Len(Sliced(a.exhibits))

C13_Witness ==
    /\ call.fn = "_append_exhibit_content"
    /\ call.arg.pc = "chunk_filing"
    /\ Len(call.arg.exhibits) > EXHIBIT_MAX_COUNT
    /\ call.arg.tried[1] = "ok"
    /\ call.arg.tried[2] = "timeout"
    /\ call.arg.tried[3] = "ok"
    /\ call.arg.html = <<0, 1, -1, 3>>

Cited(answer) == {answer[i] : i \in DOMAIN answer} \ {-1}

\* the place of n among the numbers of S in ascending order
Rank(S, n) == Cardinality({c \in S : c <= n})

\* C15: for an answer whose cited numbers all lie in 1..len(top_chunks), the
\* m distinct cited numbers are mapped in ascending order onto 1..m, every
\* marker is rewritten by that one map (text is untouched), and the chunks
\* returned are the cited chunks in ascending order of their original
\* number; an answer without a marker is returned as it is with no chunks.
C15_RenumberedInOrder ==
    call.fn = "extract_and_filter_citations"
    => LET a == call.arg
           C == Cited(a.answer)
       IN  C \subseteq 1..Len(a.top_chunks)
           => /\ DOMAIN a.filtered_answer = DOMAIN a.answer
              /\ \A i \in DOMAIN a.answer :
                    a.filtered_answer[i] =
                        IF a.answer[i] = -1 THEN -1
                        ELSE Rank(C, a.answer[i])
              /\ Cited(a.filtered_answer) = 1..Cardinality(C)
              /\ Len(a.sources) = Cardinality(C)
              /\ \A c \in C : a.sources[Rank(C, c)] = a.top_chunks[c]
              /\ C = {} => a.filtered_answer = a.answer /\ a.sources = <<>>

C15_Witness ==
    /\ call.fn = "extract_and_filter_citations"
    /\ call.arg.answer = <<3, -1, 1>>
    /\ Len(call.arg.top_chunks) = 3
    /\ call.arg.filtered_answer = <<2, -1, 1>>
    /\ call.arg.sources = <<call.arg.top_chunks[1], call.arg.top_chunks[3]>>

\* C16: a marker [n] with no retrieved chunk (n = 0 or n > len(top_chunks))
\* is left as it is in the final answer and takes no part in the renumbering:
\* the other markers are numbered by their place among the cited numbers that
\* do have a chunk.
C16_UnmatchedMarkersUntouched ==
    call.fn = "extract_and_filter_citations"
    => LET a == call.arg
           InRange == Cited(a.answer) \cap (1..Len(a.top_chunks))
       IN  \A i \in DOMAIN a.answer :
              a.filtered_answer[i] =
                  IF a.answer[i] \in InRange
                  THEN Rank(InRange, a.answer[i])
                  ELSE a.answer[i]

\* C17: each marker [k] of the final answer with 1 <= k <= len(sources)
\* denotes sources[k-1], and that source is the retrieved chunk which the
\* original marker at that position cited.
C17_SourcesInRenumberedOrder ==
    call.fn = "extract_and_filter_citations"
    => LET a == call.arg
       IN  \A i \in DOMAIN a.filtered_answer :
              a.filtered_answer[i] \in 1..Len(a.sources)
              => /\ a.answer[i] \in 1..Len(a.top_chunks)
                 /\ a.sources[a.filtered_answer[i]] = a.top_chunks[a.answer[i]]

\* C18: the element indices of chat ingestion are those the client received
\* from open_filing, also when exhibit HTML was appended before chunking:
\* every element of the main filing that has an index in element_text_map is
\* the element that carries that data-element-index in the sanitized HTML of
\* open_filing's response.
C18_SameElementIndices ==
    call.fn = "chunk_filing"
    => \A i \in DOMAIN call.arg.element_text_map :
          LET e == call.arg.element_text_map[i]
          IN  e.el <= 100
              => \E j \in DOMAIN call.arg.sanitized_html :
                    /\ call.arg.sanitized_html[j].index = e.index
                    /\ call.arg.sanitized_html[j].el = e.el

\* C19: open_filing answers InvalidFilingUrlError with 400, a network or
\* HTTP failure with 502 and any other exception with 500, and a request
\* whose fetch failed leaves the Filing Cache as it was, contents and order;
\* a request that succeeded leaves its filing id in the Filing Cache as the
\* most recently used entry.
C19_StoreOnlyAfterFetch ==
    [][ /\ (call'.fn = "fetch" /\ call'.arg \in OpenFilingFailures)
           => /\ call'.arg = "InvalidFilingUrlError" => last'.status = 400
              /\ call'.arg = "HTTPError" => last'.status = 502
              /\ call'.arg = "Exception" => last'.status = 500
              /\ last'.status \in {400, 502, 500}
              /\ UNCHANGED <<filing_cache, fcUse>>
        /\ (call'.fn = "fetch" /\ call'.arg = "ok" /\ last'.status = 200)
           => /\ filing_cache' # <<>>
              /\ filing_cache'[Len(filing_cache')].id = last'.id
              /\ Count(filing_cache', last'.id) = 1
              /\ fcUse'[Len(fcUse')] = last'.id
      ]_vars

C19_Witness ==
    /\ call = Called("fetch", "InvalidFilingUrlError")
    /\ last.status = 400
    /\ last.op = "none"
    /\ Len(filing_cache) = MaxFilings

\* C20: fetch validates the resolved URL before any network call: a GET is
\* sent only to a URL whose network location is exactly sec.gov or
\* www.sec.gov, at most one is sent, and when none is sent
\* InvalidFilingUrlError was raised; a URL whose resolved network location
\* is one of the two is not refused.
C20_GetOnlyToSec ==
    call.fn = "fetch"
    => /\ \A i \in DOMAIN call.arg.get :
             \/ call.arg.get[i].netloc = <<"sec.gov">>
             \/ call.arg.get[i].netloc = <<"www.", "sec.gov">>
       /\ Len(call.arg.get) <= 1
       /\ call.arg.get = <<>> <=> call.arg.raised = "InvalidFilingUrlError"
       /\ call.arg.get # <<>> <=> call.arg.raised = ""
       /\ ( /\ call.arg.url.netloc \in {<<"sec.gov">>, <<"www.", "sec.gov">>}
            /\ ~(call.arg.url.path = <<"/", "ix">> /\ call.arg.url.doc # <<>>) )
          => call.arg.get = <<call.arg.url>>

C20_Witness ==
    /\ call.fn = "fetch"
    /\ call.arg.url.netloc = <<"www.", "sec.gov">>
    /\ call.arg.url.path = <<"/", "ix">>
    /\ call.arg.url.doc = <<"@", "evil.com", "/">>
    /\ call.arg.raised = "InvalidFilingUrlError"
    /\ call.arg.get = <<>>

\* C21: the k-th chunk chunk_text emits is the slice of the token stream
\* that starts at offset (k - 1) * (max_tokens - overlap) and holds
\* max_tokens tokens, or fewer at the end of the stream, and no chunk has
\* more than CHUNK_HARD_MAX_TOKENS tokens whatever max_tokens is.
C21_ChunkOffsets ==
    call.fn = "chunk_text"
    => LET a == call.arg
           s == a.max_tokens - a.overlap
           Least(x, y) == IF x < y THEN x ELSE y
       IN  \A k \in DOMAIN a.chunks :
              /\ Len(a.chunks[k]) <= CHUNK_HARD_MAX_TOKENS
              /\ s >= 0
                 => a.chunks[k] =
                        [i \in 1..Least(Least(a.max_tokens,
                                              CHUNK_HARD_MAX_TOKENS),
                                        a.n - (k - 1) * s) |->
                            (k - 1) * s + i]

C21_Witness ==
    /\ call.fn = "chunk_text"
    /\ call.arg.pc = "return"
    /\ call.arg.n = 12 /\ call.arg.max_tokens = 5 /\ call.arg.overlap = 1
    /\ Len(call.arg.chunks) = 3
    /\ call.arg.chunks[2] = <<5, 6, 7, 8, 9>>
    /\ call.arg.chunks[3] = <<9, 10, 11, 12>>

\* C22: sanitize assigns data-element-index from one running counter in two
\* passes: the assigned indices are pairwise distinct and are 0..m-1, every
\* non-empty heading or emphasis element has an index and it is smaller than
\* the index of every text block that has one, and a text block with fewer
\* than 20 characters of text has none.
C22_TwoPassIndices ==
    call.fn = "sanitize"
    => LET raw == call.arg.raw
           html == call.arg.html
           Has == {i \in DOMAIN html : html[i].index >= 0}
       IN  /\ DOMAIN html = DOMAIN raw
           /\ \A i, j \in Has : html[i].index = html[j].index => i = j
           /\ {html[i].index : i \in Has} = 0..(Cardinality(Has) - 1)
           /\ \A i \in DOMAIN raw :
                 (raw[i].name \in {"h2", "b"} /\ raw[i].text > 0)
                 => /\ i \in Has
                    /\ \A j \in Has :
                          raw[j].name \in {"p", "td"}
                          => html[i].index < html[j].index
           /\ \A i \in DOMAIN raw :
                 (raw[i].name \in {"p", "td"} /\ raw[i].text < 20)
                 => i \notin Has
           /\ \A i, j \in Has :
                 (i < j /\ raw[i].name \in {"p", "td"}
                        /\ raw[j].name \in {"p", "td"})
                 => html[i].index < html[j].index

C22_Witness ==
    /\ call.fn = "sanitize"
    /\ Len(call.arg.raw) = 3
    /\ call.arg.raw[1] = [name |-> "p", text |-> 20]
    /\ call.arg.raw[2] = [name |-> "td", text |-> 19]
    /\ call.arg.raw[3] = [name |-> "b", text |-> 1]
    /\ call.arg.html[1].index = 1
    /\ call.arg.html[2].index = -1
    /\ call.arg.html[3].index = 0

\* the tokens of the chunks chunk_filing returned
ChunkTokens ==
    UNION {{call.arg.chunks[c][i] : i \in DOMAIN call.arg.chunks[c]} :
              c \in DOMAIN call.arg.chunks}

IsTable(tag) == tag.name = "table"

\* C23: the document chunk_filing takes text and tables from is the
\* sanitized HTML: no string of a script or style element is in a chunk's
\* text, and the tables it numbers for the placeholders are the tables of
\* the sanitized document.
C23_WorkingDocumentSanitized ==
    call.fn = "chunk_filing"
    => /\ call.arg.soup = call.arg.sanitized_soup
       /\ \A s \in ChunkTokens : s.name \notin {"script", "style"}
       /\ SelectSeq(call.arg.soup, IsTable)
              = SelectSeq(call.arg.sanitized_soup, IsTable)

\* C29: after chunk_filing no chunk's text holds an unreplaced table
\* placeholder, also when a table's formatting failed or was empty.
C29_NoPlaceholderLeft ==
    call.fn = "chunk_filing"
    => \A s \in ChunkTokens : s.name # "[TABLE_i_PLACEHOLDER]"

\* n / s rounded up
Ceil(n, s) == (n + s - 1) \div s

\* C30: a call of chunk_text with overlap < max_tokens returns; it returns
\* ceil(n / (max_tokens - overlap)) chunks for a stream of n tokens, and when
\* max_tokens is within the hard limit every token position is in a chunk.
C30_ChunkTextTerminates ==
    /\ [](call.arg.pc = "return" /\ call.arg.overlap < call.arg.max_tokens
          => LET a == call.arg
             IN  /\ Len(a.chunks) = Ceil(a.n, a.max_tokens - a.overlap)
                 /\ a.max_tokens <= CHUNK_HARD_MAX_TOKENS
                    => \A p \in 1..a.n :
                          \E k \in DOMAIN a.chunks :
                             \E i \in DOMAIN a.chunks[k] : a.chunks[k][i] = p)
    /\ (call.arg.overlap < call.arg.max_tokens) ~> (call.arg.pc = "return")

\* a stream of 11 tokens cut with 4 and 2 has returned its 6 chunks
C30_Witness ==
    /\ call.fn = "chunk_text"
    /\ call.arg.pc = "return"
    /\ call.arg.n = 11
    /\ call.arg.max_tokens = 4
    /\ call.arg.overlap = 2
    /\ Len(call.arg.chunks) = 6
    /\ call.arg.chunks[6] = <<11>>

\* the cell whose span was the last to be written over each position
Spans == filled("spans", call.arg.rows)

\* C24: the two grids have the same dimensions; a position no cell covers is
\* "" in both; the first position of a cell holds the cell's text in both;
\* every other position a cell covers holds "" in the export grid and the
\* cell's text in the Table Formatter's grid.
C24_MergedCellGrids ==
    call.fn = "handle_merged_cells"
    => LET export == call.arg.export
           formatter == call.arg.formatter
           rows == call.arg.rows
       IN  /\ DOMAIN export = DOMAIN formatter
           /\ DOMAIN export = DOMAIN Spans
           /\ \A i \in DOMAIN export :
                 /\ DOMAIN export[i] = DOMAIN formatter[i]
                 /\ DOMAIN export[i] = DOMAIN Spans[i]
                 /\ \A j \in DOMAIN export[i] :
                       LET span == Spans[i][j]
                       IN  IF span = None("spans")
                           THEN export[i][j] = "" /\ formatter[i][j] = ""
                           ELSE LET text == rows[span[1]][span[3]].text
                                IN  /\ formatter[i][j] = text
                                    /\ export[i][j] =
                                           IF <<i, j>> = <<span[1], span[2]>>
                                           THEN text ELSE ""

\* a cell "a" over two rows beside a cell "b", and a third cell under "b"
C24_Witness ==
    /\ call.fn = "handle_merged_cells"
    /\ call.arg.rows =
           <<<<[text |-> "a", colspan |-> 1, rowspan |-> 2],
               [text |-> "b", colspan |-> 1, rowspan |-> 1]>>,
             <<[text |-> "b", colspan |-> 1, rowspan |-> 1]>>>>
    /\ call.arg.export = <<<<"a", "b">>, <<"", "b">>>>
    /\ call.arg.formatter = <<<<"a", "b">>, <<"a", "b">>>>

\* the cells of a row that are not blank, in their order
NonBlank(row) == SelectSeq(row, LAMBDA cell : strip(cell) # <<>>)

\* C25: collapse_empty_columns loses no data: the header and every row keep
\* their non-blank cells, in the same row and the same order, also when the
\* rows are wider or narrower than the header.
C25_NoDataLost ==
    call.fn = "collapse_empty_columns"
    => LET a == call.arg
       IN  /\ NonBlank(a.table.headers) = NonBlank(a.headers)
           /\ Len(a.table.rows) = Len(a.rows)
           /\ \A r \in DOMAIN a.rows :
                 NonBlank(a.table.rows[r]) = NonBlank(a.rows[r])

\* the entries of the payload whose form is in the whitelist, in their order
Whitelisted(recent) ==
    SelectSeq([i \in DOMAIN recent.accessionNumber |->
                  [form |-> FormAt(recent, i),
                   accessionNumber |-> recent.accessionNumber[i]]],
              LAMBDA filing : filing.form \in ALLOWED_FORMS)

\* C26: extract_filings returns the whitelisted entries in their order cut to
\* the first `limit` of them: no other form, never more than `limit` entries.
C26_WhitelistedUpToLimit ==
    call.fn = "extract_filings"
    => LET a == call.arg
           matches == Whitelisted(a.recent)
       IN  /\ \A k \in DOMAIN a.filings : a.filings[k].form \in ALLOWED_FORMS
           /\ Len(a.filings) <= a.limit
           /\ a.filings = SubSeq(matches, 1, IF a.limit < Len(matches)
                                             THEN a.limit ELSE Len(matches))

\* C27: retrieve on an ingested filing with n chunks and top_k >= 1 returns
\* min(top_k, n) distinct chunks in descending score order; with a
\* query_text and a Keyword Index entry every result carries score,
\* semantic_score and keyword_score; otherwise score alone, which is the raw
\* semantic score, and no chunk left out has a higher one.
C27_TopKDescending ==
    call.fn = "retrieve"
    => LET q == call.arg.query
           top == call.arg.top_chunks
           n == Len(q.semantic_scores)
       IN  /\ ~call.arg.raised
           /\ Len(top) = (IF q.top_k < n THEN q.top_k ELSE n)
           /\ \A j, k \in DOMAIN top :
                 /\ top[j].chunk \in 1..n
                 /\ j # k => top[j].chunk # top[k].chunk
                 /\ j < k => top[j].score >= top[k].score
           /\ IF q.query_text # "None" /\ q.bm25_index.has
              THEN \A k \in DOMAIN top :
                      DOMAIN top[k] = {"chunk", "score", "semantic_score",
                                       "keyword_score"}
              ELSE \A k \in DOMAIN top :
                      /\ DOMAIN top[k] = {"chunk", "score"}
                      /\ top[k].score = q.semantic_scores[top[k].chunk]
                      /\ \A i \in 1..n :
                            (\A j \in DOMAIN top : top[j].chunk # i)
                            => q.semantic_scores[i] <= top[k].score

\* C28: get_source_url and has_filing are pure reads: a call of either
\* leaves the cache as it was, entries and order, so that a store after the
\* call evicts and leaves what it would have without the call.
C28_PureReads ==
    [][call'.fn \in {"get_source_url", "has_filing"}
       => /\ filing_cache' = filing_cache
          /\ FilingCache_victim(filing_cache')
                 = FilingCache_victim(filing_cache)
          /\ \A filing_id \in Filings, html \in CacheHtmls :
                FilingCache_store(filing_cache', filing_id, html)
                    = FilingCache_store(filing_cache, filing_id, html)]_vars

\* get_source_url found the oldest entry of the full cache, and it still is
\* the one the next store evicts
C28_Witness ==
    /\ call.fn = "get_source_url"
    /\ call.arg.hit
    /\ Len(filing_cache) = MaxFilings
    /\ FilingCache_victim(filing_cache) = call.arg.filing_id

============================================================================
